---- MODULE Spec2Model ----
(***************************************************************************)
(* post_processor.py: a command-line pass over a Markdown file converted   *)
(* from an EPUB.  The file is read, twelve text rewrites are applied in a  *)
(* fixed order, and the file is written back when the text changed.        *)
(*                                                                         *)
(* Texts are TLA+ strings.  Every rewrite of the program is a regular      *)
(* expression substitution; the expressions are transcribed node by node   *)
(* and run by a backtracking matcher with the priorities of Python's re    *)
(* (leftmost match, greedy and lazy repetition, ordered alternation).      *)
(***************************************************************************)
EXTENDS Integers, Sequences, FiniteSets, TLC

VARIABLES
    pc,                    \* the statement of __main__ about to run
    argv,                  \* sys.argv[1:] as given on the command line
    file,                  \* the file at markdown_file_path
    current_media_folder,  \* __main__'s current_media_folder
    content,               \* __main__'s content
    original_content,      \* __main__'s original_content
    step_input,            \* the text the transform that ran last received
    calls,                 \* the converter invocations, in the order made
    stderr,                \* the messages written to sys.stderr, in order
    opens_for_write,       \* how often the file was opened with mode "w"
    exit_status            \* -1 while running, else the process exit status

vars == <<pc, argv, file, current_media_folder, content, original_content,
          step_input, calls, stderr, opens_for_write, exit_status>>

-----------------------------------------------------------------------------
(* Characters and character classes.                                       *)

Ch(s, i) == SubSeq(s, i, i)

UpperCase == "ABCDEFGHIJKLMNOPQRSTUVWXYZ"
LowerCase == "abcdefghijklmnopqrstuvwxyz"
DigitChars == "0123456789"

CharsOf(s) == {Ch(s, j) : j \in 1..Len(s)}

Upper == CharsOf(UpperCase)
Lower == CharsOf(LowerCase)
Digit == CharsOf(DigitChars)
\* \s of a str pattern, restricted to the characters a TLA+ string can hold
Space == {" ", "\t", "\n", "\r", "\f"}

\* str.lower() of one character, as re.IGNORECASE compares characters
ToLower(c) ==
    IF c \in Upper
    THEN Ch(LowerCase, CHOOSE j \in 1..Len(UpperCase) : Ch(UpperCase, j) = c)
    ELSE c

-----------------------------------------------------------------------------
(* Regular expressions: the nodes of a pattern.                            *)

Set(cs)    == [t |-> "set", neg |-> FALSE, cs |-> cs]
NotSet(cs) == [t |-> "set", neg |-> TRUE, cs |-> cs]
Lit(c)     == Set({c})
Dot        == [t |-> "any"]
Bol        == [t |-> "bol"]
Eol        == [t |-> "eol"]
Cat(xs)    == [t |-> "cat", xs |-> xs]
Alt(x, y)  == [t |-> "alt", x |-> x, y |-> y]
\* x{min,max}; max = -1 is no upper limit
Rep(x, min, max, greedy) ==
    [t |-> "rep", x |-> x, min |-> min, max |-> max, greedy |-> greedy]
Star(x)     == Rep(x, 0, -1, TRUE)
Plus(x)     == Rep(x, 1, -1, TRUE)
Opt(x)      == Rep(x, 0, 1, TRUE)
LazyStar(x) == Rep(x, 0, -1, FALSE)
Grp(n, x)   == [t |-> "grp", n |-> n, x |-> x]
\* a literal string
Str(s)      == [t |-> "str", s |-> s]
WS          == Set(Space)
Digits      == Plus(Set(Digit))

\* the flags of a compiled pattern
Flags(i, m, s) == [ignorecase |-> i, multiline |-> m, dotall |-> s]
NoFlags == Flags(FALSE, FALSE, FALSE)

NoGroups == [n \in 1..4 |-> <<0, 0>>]
Fail == [ok |-> FALSE, end |-> 0, g |-> NoGroups]

\* whether the one-character node n (a class or the dot) matches c
One(n, c, f) ==
    IF n.t = "any" THEN f.dotall \/ c # "\n"
    ELSE LET hit == IF f.ignorecase
                    THEN \E d \in n.cs : ToLower(d) = ToLower(c)
                    ELSE c \in n.cs
         IN  hit # n.neg

\* whether the literal lit stands at position i of s
Literal(lit, s, i, f) ==
    /\ i + Len(lit) - 1 <= Len(s)
    /\ \A j \in 1..Len(lit) :
          IF f.ignorecase
          THEN ToLower(Ch(s, i + j - 1)) = ToLower(Ch(lit, j))
          ELSE Ch(s, i + j - 1) = Ch(lit, j)

Largest(ns)  == CHOOSE m \in ns : \A k \in ns : k <= m
Smallest(ns) == CHOOSE m \in ns : \A k \in ns : m <= k

\* how many characters from position i on the one-character node n matches
\* in a row, at most cap of them
Run(n, s, i, f, cap) ==
    Smallest({m \in 0..(cap - 1) : ~One(n, Ch(s, i + m), f)} \cup {cap})

\* The backtracking matcher: k is the sequence of nodes still to match from
\* position i of s, g the groups captured so far.  The result is the first
\* match in the order re tries them: a greedy repetition takes the most
\* iterations the rest of the pattern allows, a lazy one the fewest, and an
\* alternation its first branch that the rest allows.
RECURSIVE Match(_, _, _, _, _)
Match(k, s, i, g, f) ==
    IF k = <<>> THEN [ok |-> TRUE, end |-> i, g |-> g]
    ELSE
    LET n == Head(k)
        rest == Tail(k)
    IN  CASE n.t \in {"set", "any"} ->
                IF i <= Len(s) /\ One(n, Ch(s, i), f)
                THEN Match(rest, s, i + 1, g, f) ELSE Fail
          [] n.t = "str" ->
                IF Literal(n.s, s, i, f)
                THEN Match(rest, s, i + Len(n.s), g, f) ELSE Fail
          [] n.t = "bol" ->
                IF i = 1 \/ (f.multiline /\ Ch(s, i - 1) = "\n")
                THEN Match(rest, s, i, g, f) ELSE Fail
          [] n.t = "eol" ->
                IF \/ i = Len(s) + 1
                   \/ i = Len(s) /\ Ch(s, i) = "\n"
                   \/ f.multiline /\ i <= Len(s) /\ Ch(s, i) = "\n"
                THEN Match(rest, s, i, g, f) ELSE Fail
          [] n.t = "cat" -> Match(n.xs \o rest, s, i, g, f)
          [] n.t = "alt" ->
                LET first == Match(<<n.x>> \o rest, s, i, g, f)
                IN  IF first.ok THEN first
                    ELSE Match(<<n.y>> \o rest, s, i, g, f)
          [] n.t = "rep" /\ n.x.t \in {"set", "any"} ->
                \* a repeated single character: the run it can take, then
                \* the longest (greedy) or shortest (lazy) part of the run
                \* after which the rest matches
                LET left == Len(s) - i + 1
                    cap  == IF n.max >= 0 /\ n.max < left THEN n.max ELSE left
                    run  == Run(n.x, s, i, f, cap)
                    tries == {[m |-> m, r |-> Match(rest, s, i + m, g, f)] :
                                 m \in n.min..run}
                    good == {x \in tries : x.r.ok}
                IN  IF good = {} THEN Fail
                    ELSE IF n.greedy
                    THEN (CHOOSE x \in good : \A y \in good : y.m <= x.m).r
                    ELSE (CHOOSE x \in good : \A y \in good : x.m <= y.m).r
          [] n.t = "rep" /\ n.x.t \notin {"set", "any"} ->
                LET again == Rep(n.x,
                                 IF n.min > 0 THEN n.min - 1 ELSE 0,
                                 IF n.max > 0 THEN n.max - 1 ELSE n.max,
                                 n.greedy)
                    more == Match(<<n.x, [t |-> "progress", at |-> i], again>>
                                      \o rest, s, i, g, f)
                    stop == Match(rest, s, i, g, f)
                IN  IF n.min > 0 THEN Match(<<n.x, again>> \o rest, s, i, g, f)
                    ELSE IF n.max = 0 THEN stop
                    ELSE IF n.greedy
                         THEN (IF more.ok THEN more ELSE stop)
                         ELSE (IF stop.ok THEN stop ELSE more)
          [] n.t = "progress" ->
                \* an iteration that consumed nothing is not repeated
                IF i = n.at THEN Fail ELSE Match(rest, s, i, g, f)
          [] n.t = "grp" ->
                Match(<<n.x, [t |-> "close", n |-> n.n, at |-> i]>> \o rest,
                      s, i, g, f)
          [] n.t = "close" ->
                Match(rest, s, i, [g EXCEPT ![n.n] = <<n.at, i>>], f)

\* pattern.match(s): a match at the start of s, or none
ReMatch(pat, f, s) == Match(<<pat>>, s, 1, NoGroups, f)

\* pattern.finditer(s): the non-overlapping matches, left to right, each
\* the match at the first position from i on that has one.  No pattern of
\* the program matches the empty string.
RECURSIVE FindFrom(_, _, _, _)
FindFrom(pat, f, s, i) ==
    LET tries == {[a |-> j, r |-> Match(<<pat>>, s, j, NoGroups, f)] :
                     j \in i..Len(s)}
        good == {x \in tries : x.r.ok /\ x.r.end > x.a}
    IN  IF good = {} THEN <<>>
        ELSE LET x == CHOOSE x \in good : \A y \in good : x.a <= y.a
             IN  <<[a |-> x.a, b |-> x.r.end, g |-> x.r.g]>>
                     \o FindFrom(pat, f, s, x.r.end)

FindAll(pat, f, s) == FindFrom(pat, f, s, 1)

\* match.group(n) of a match m in s
Group(s, m, n) == SubSeq(s, m.g[n][1], m.g[n][2] - 1)
\* match.group(0)
Whole(s, m) == SubSeq(s, m.a, m.b - 1)

\* pattern.sub: s with the k-th match replaced by reps[k]
RECURSIVE Rebuild(_, _, _, _, _)
Rebuild(s, ms, reps, k, pos) ==
    IF k > Len(ms) THEN SubSeq(s, pos, Len(s))
    ELSE SubSeq(s, pos, ms[k].a - 1) \o reps[k]
             \o Rebuild(s, ms, reps, k + 1, ms[k].b)

Sub(s, ms, reps) == Rebuild(s, ms, reps, 1, 1)

\* str.replace(old, new) for a one-character old
RECURSIVE Replace(_, _, _)
Replace(s, old, new) ==
    IF Len(s) = 0 THEN ""
    ELSE IF Len(s) = 1 THEN (IF s = old THEN new ELSE s)
    ELSE LET h == Len(s) \div 2
         IN  Replace(SubSeq(s, 1, h), old, new)
                 \o Replace(SubSeq(s, h + 1, Len(s)), old, new)

\* str.strip()
Strip(s) ==
    LET inner == {j \in 1..Len(s) : Ch(s, j) \notin Space}
    IN  IF inner = {} THEN ""
        ELSE SubSeq(s, Smallest(inner), Largest(inner))

\* str.splitlines(): the lines of s without their terminators; "\r\n" is
\* one terminator, and a terminator at the very end opens no further line
LineBreak == {"\n", "\r", "\f"}

RECURSIVE splitlines(_)
splitlines(s) ==
    LET breaks == {j \in 1..Len(s) : Ch(s, j) \in LineBreak}
    IN  IF s = "" THEN <<>>
        ELSE IF breaks = {} THEN <<s>>
        ELSE LET b == Smallest(breaks)
                 w == IF b < Len(s) /\ SubSeq(s, b, b + 1) = "\r\n"
                      THEN 2 ELSE 1
             IN  <<SubSeq(s, 1, b - 1)>>
                     \o splitlines(SubSeq(s, b + w, Len(s)))

\* What f.read() returns for the bytes `data` of a file opened in text mode
\* with the default newline=None: "\r\n" and "\r" are read as "\n".
RECURSIVE ReadRange(_, _, _)
ReadRange(data, a, b) ==
    IF a > b THEN ""
    ELSE IF a = b
         THEN (IF Ch(data, a) = "\r" THEN "\n"
               ELSE IF Ch(data, a) = "\n" /\ a > 1 /\ Ch(data, a - 1) = "\r"
                    THEN ""
               ELSE Ch(data, a))
    ELSE LET h == (a + b) \div 2
         IN  ReadRange(data, a, h) \o ReadRange(data, h + 1, b)

universal_newlines(data) == ReadRange(data, 1, Len(data))

\* sep.join(xs)
RECURSIVE Join(_, _)
Join(sep, xs) ==
    IF xs = <<>> THEN ""
    ELSE IF Len(xs) = 1 THEN xs[1]
    ELSE xs[1] \o sep \o Join(sep, Tail(xs))

-----------------------------------------------------------------------------
(* The transforms, in the order the file defines them.                     *)

IS == Flags(TRUE, FALSE, TRUE)     \* re.IGNORECASE | re.DOTALL
I  == Flags(TRUE, FALSE, FALSE)    \* re.IGNORECASE
M  == Flags(FALSE, TRUE, FALSE)    \* re.MULTILINE
S  == Flags(FALSE, FALSE, TRUE)    \* re.DOTALL

\* <span\s+id="ch[0-9]+\.html"[^>]*>\s*<\/span>
empty_chapter_span ==
    Cat(<<Str("<span"), Plus(WS), Str("id=\"ch"), Digits, Str(".html\""),
          Star(NotSet({">"})), Lit(">"), Star(WS), Str("</span>")>>)

\* <span\s+[^>]*?data-type=\"indexterm\"[^>]*>(.*?)<\/span>
indexterm_span ==
    Cat(<<Str("<span"), Plus(WS), LazyStar(NotSet({">"})),
          Str("data-type=\"indexterm\""), Star(NotSet({">"})), Lit(">"),
          Grp(1, LazyStar(Dot)), Str("</span>")>>)

remove_unwanted_spans(text) ==
    LET ms1 == FindAll(empty_chapter_span, I, text)
        t1  == Sub(text, ms1, [k \in 1..Len(ms1) |-> ""])
        ms2 == FindAll(indexterm_span, IS, t1)
    IN  Sub(t1, ms2, [k \in 1..Len(ms2) |-> Group(t1, ms2[k], 1)])

\* U+201C, U+201D, U+2018 and U+2019 are outside the alphabet of TLA+
\* strings; these four characters stand for them.
LDQUO == "%"
RDQUO == "~"
LSQUO == "@"
RSQUO == "$"

convert_smart_quotes(text) ==
    Replace(Replace(Replace(Replace(text, LDQUO, "\""), RDQUO, "\""),
                    LSQUO, "'"), RSQUO, "'")

\* ^\^\(\[([0-9]+)\]\(#[^)]+\)\)\s*(.*)
footnote_definition ==
    Cat(<<Bol, Str("^(["), Grp(1, Digits), Str("](#"), Plus(NotSet({")"})),
          Str("))"), Star(WS), Grp(2, Star(Dot))>>)

fix_footnote_definitions(text) ==
    LET ms == FindAll(footnote_definition, M, text)
    IN  Sub(text, ms, [k \in 1..Len(ms) |->
            "[^" \o Group(text, ms[k], 1) \o "]: " \o Group(text, ms[k], 2)])

\* \[([^\]]+)\]\(([^)]+)\)
markdown_link ==
    Cat(<<Lit("["), Grp(1, Plus(NotSet({"]"}))), Str("]("),
          Grp(2, Plus(NotSet({")"}))), Lit(")")>>)

\* ^!\[(?P<alt>[^\]]*)\]\(.(?P<slash>/)<folder>/(?P<filename>[^)]+)\)\s*\n
\* (?:^\s*\n)*^######\s*(?P<caption>.*?)\s*$
figure_caption_pattern(media_folder_name) ==
    Cat(<<Bol, Str("!["), Grp(1, Star(NotSet({"]"}))), Str("]("), Dot,
          Grp(2, Lit("/")), Str(media_folder_name), Lit("/"),
          Grp(3, Plus(NotSet({")"}))), Lit(")"), Star(WS), Lit("\n"),
          Star(Cat(<<Bol, Star(WS), Lit("\n")>>)),
          Bol, Str("######"), Star(WS), Grp(4, LazyStar(Dot)), Star(WS),
          Eol>>)

replace_with_figure(text, match, media_folder_name) ==
    LET alt_text   == Group(text, match, 1)
        slash      == Group(text, match, 2)
        filename   == Group(text, match, 3)
        caption_md == Group(text, match, 4)
        img_src    == "." \o slash \o media_folder_name \o "/" \o filename
        ls         == FindAll(markdown_link, NoFlags, caption_md)
        caption_html ==
            Sub(caption_md, ls, [k \in 1..Len(ls) |->
                "<a href=\"" \o Group(caption_md, ls[k], 2) \o "\">"
                    \o Group(caption_md, ls[k], 1) \o "</a>"])
        alt_text_html == Replace(alt_text, "\"", "&quot;")
    IN  "<figure>\n"
        \o "  <img src=\"" \o img_src \o "\" alt=\"" \o alt_text_html
        \o "\" />\n"
        \o "  <figcaption>" \o caption_html \o "</figcaption>\n"
        \o "</figure>\n"

convert_image_captions_to_figures(text, media_folder_name) ==
    LET ms == FindAll(figure_caption_pattern(media_folder_name), M, text)
    IN  Sub(text, ms, [k \in 1..Len(ms) |->
            replace_with_figure(text, ms[k], media_folder_name)])

\* ^######\s*(Tip|Note|Caution|Warning)$
admonition_header ==
    Cat(<<Bol, Str("######"), Star(WS),
          Grp(1, Alt(Str("Tip"), Alt(Str("Note"),
                 Alt(Str("Caution"), Str("Warning"))))), Eol>>)

convert_h6_to_blockquote(text) ==
    LET ms == FindAll(admonition_header, M, text)
    IN  Sub(text, ms, [k \in 1..Len(ms) |->
            "[!" \o Group(text, ms[k], 1) \o "]"])

\* ^(#####\s*)(Example\s+[0-9]+(?:-[0-9]+)?\..*)$
example_header ==
    Cat(<<Bol, Grp(1, Cat(<<Str("#####"), Star(WS)>>)),
          Grp(2, Cat(<<Str("Example"), Plus(WS), Digits,
                       Opt(Cat(<<Lit("-"), Digits>>)), Lit("."),
                       Star(Dot)>>)), Eol>>)

\* ^#\s+Chapter\s+[0-9.]+.*$
chapter_header ==
    Cat(<<Bol, Lit("#"), Plus(WS), Str("Chapter"), Plus(WS),
          Plus(Set(Digit \cup {"."})), Star(Dot), Eol>>)

\* ^(#{1,5})(\s+.*)$
general_header ==
    Cat(<<Bol, Grp(1, Rep(Lit("#"), 1, 5, TRUE)),
          Grp(2, Cat(<<Plus(WS), Star(Dot)>>)), Eol>>)

\* the body of the loop of adjust_headers: the line appended for `line`
adjust_line(line) ==
    LET match_ex3     == ReMatch(example_header, NoFlags, line)
        stripped_line == Strip(line)
        match_general == ReMatch(general_header, NoFlags, line)
        ex3     == [a |-> 1, b |-> match_ex3.end, g |-> match_ex3.g]
        general == [a |-> 1, b |-> match_general.end, g |-> match_general.g]
    IN  IF match_ex3.ok
        THEN "*" \o Strip(Group(line, ex3, 2)) \o "*"
        ELSE IF stripped_line = "# Chapter Goals"
        THEN "### Chapter Goals"
        ELSE IF ReMatch(chapter_header, NoFlags, stripped_line).ok
        THEN line
        ELSE IF match_general.ok
        THEN "#" \o Group(line, general, 1) \o Group(line, general, 2)
        ELSE line

adjust_headers(text) ==
    LET lines == splitlines(text)
    IN  Join("\n", [k \in 1..Len(lines) |-> adjust_line(lines[k])])

\* ^<sup>\[([0-9]+)\]\(#[^)]+\)<\/sup>\s+(.*)
superscript_footnote ==
    Cat(<<Bol, Str("<sup>["), Grp(1, Digits), Str("](#"),
          Plus(NotSet({")"})), Str(")</sup>"), Plus(WS),
          Grp(2, Star(Dot))>>)

convert_superscript_footnotes(text) ==
    LET ms == FindAll(superscript_footnote, M, text)
    IN  Sub(text, ms, [k \in 1..Len(ms) |->
            "[^" \o Group(text, ms[k], 1) \o "]: " \o Group(text, ms[k], 2)])

\* (<figure[^>]*>)(.*?)(<\/figure>)
figure_pattern ==
    Cat(<<Grp(1, Cat(<<Str("<figure"), Star(NotSet({">"})), Lit(">")>>)),
          Grp(2, LazyStar(Dot)), Grp(3, Str("</figure>"))>>)

\* <h6([^>]*)>
h6_open == Cat(<<Str("<h6"), Grp(1, Star(NotSet({">"}))), Lit(">")>>)

normalize_and_replace_h6(text, match) ==
    LET figure_content == Group(text, match, 2)
        os == FindAll(h6_open, I, figure_content)
        c1 == Sub(figure_content, os, [k \in 1..Len(os) |->
                  "<figcaption" \o Group(figure_content, os[k], 1) \o ">"])
        cs == FindAll(Str("</h6>"), I, c1)
        content_modified == Sub(c1, cs, [k \in 1..Len(cs) |-> "</figcaption>"])
    IN  "<figure>" \o "\n" \o Strip(content_modified) \o "\n</figure>"

process_html_figures(text) ==
    LET ms == FindAll(figure_pattern, IS, text)
    IN  Sub(text, ms, [k \in 1..Len(ms) |->
            normalize_and_replace_h6(text, ms[k])])

\* <a\s+(?:[^>]*?\s+)?href=\"#(?:[^\"]*)\"(?:[^>]*)>(.*?)<\/a>
internal_link ==
    Cat(<<Str("<a"), Plus(WS),
          Opt(Cat(<<LazyStar(NotSet({">"})), Plus(WS)>>)),
          Str("href=\"#"), Star(NotSet({"\""})), Lit("\""),
          Star(NotSet({">"})), Lit(">"), Grp(1, LazyStar(Dot)),
          Str("</a>")>>)

convert_internal_links_to_text(text) ==
    LET ms == FindAll(internal_link, I, text)
    IN  Sub(text, ms, [k \in 1..Len(ms) |-> Group(text, ms[k], 1)])

\* ^(>\s*)(#{1,6})(\s+.*)$
blockquoted_header ==
    Cat(<<Bol, Grp(1, Cat(<<Lit(">"), Star(WS)>>)),
          Grp(2, Rep(Lit("#"), 1, 6, TRUE)),
          Grp(3, Cat(<<Plus(WS), Star(Dot)>>)), Eol>>)

normalize_blockquoted_headers(text) ==
    LET ms == FindAll(blockquoted_header, M, text)
    IN  Sub(text, ms, [k \in 1..Len(ms) |->
            Group(text, ms[k], 1) \o "###" \o Group(text, ms[k], 3)])

\* <img\s+(?:[^>]*?\s+)?src="\.\/<folder>\/[0-9]+\.png"(?:[^>]*?\s+)?
\* alt="([0-9]+)"(?:[^>]*?)\s*\/?>\s+\n
numbered_img(media_folder_name) ==
    Cat(<<Str("<img"), Plus(WS),
          Opt(Cat(<<LazyStar(NotSet({">"})), Plus(WS)>>)),
          Str("src=\"./"), Str(media_folder_name), Lit("/"), Digits,
          Str(".png\""),
          Opt(Cat(<<LazyStar(NotSet({">"})), Plus(WS)>>)),
          Str("alt=\""), Grp(1, Digits), Lit("\""),
          LazyStar(NotSet({">"})), Star(WS), Opt(Lit("/")), Lit(">"),
          Plus(WS), Lit("\n")>>)

convert_specific_img_tags_to_numbered_text(text, media_folder_name) ==
    LET ms == FindAll(numbered_img(media_folder_name), I, text)
    IN  Sub(text, ms, [k \in 1..Len(ms) |-> Group(text, ms[k], 1) \o ". "])

\* {#[a-zA-Z0-9_]+}
reference_tag ==
    Cat(<<Str("{#"), Plus(Set(Lower \cup Upper \cup Digit \cup {"_"})),
          Lit("}")>>)

remove_reference_tags(text) ==
    LET ms == FindAll(reference_tag, NoFlags, text)
    IN  Sub(text, ms, [k \in 1..Len(ms) |-> ""])

\* <p>(.*?)</p>
p_wrapper == Cat(<<Str("<p>"), Grp(1, LazyStar(Dot)), Str("</p>")>>)

\* \s*\{\#([a-zA-Z0-9_.-]+)\}\s*$
pandoc_id_attribute ==
    Cat(<<Star(WS), Str("{#"),
          Grp(1, Plus(Set(Lower \cup Upper \cup Digit \cup {"_", ".", "-"}))),
          Lit("}"), Star(WS), Eol>>)

\* the snippet with its <p> wrappers removed, as it is given to pandoc
strip_p_wrappers(html_snippet, ps) ==
    Sub(html_snippet, ps, [k \in 1..Len(ps) |-> Group(html_snippet, ps[k], 1)])

\* pandoc's output without the {#id} attributes at its line ends
strip_id_attributes(out, as) == Sub(out, as, [k \in 1..Len(as) |-> ""])

\* The end of convert_html_snippet_to_markdown, once html_snippet has been
\* reassigned to `stripped`.  run is how subprocess.run ends:
\*   "ok"        exit status 0 with `stdout`
\*   "nonzero"   another exit status
\*   "notfound"  FileNotFoundError, no pandoc on the path
\*   "exception" any other exception
\* The result holds the returned text, the text given to pandoc on stdin and
\* the messages written to sys.stderr.
run_pandoc(stripped, run, lua_filter_exists) ==
    [result |->
        IF run.kind = "ok"
        THEN strip_id_attributes(Strip(run.stdout),
                 FindAll(pandoc_id_attribute, M, Strip(run.stdout)))
        ELSE stripped,
     stdin |-> stripped,
     log |->
        (IF lua_filter_exists THEN <<>> ELSE <<"lua filter not found">>)
        \o (CASE run.kind = "ok" -> <<>>
              [] run.kind = "nonzero" -> <<"pandoc failed", "pandoc stderr">>
              [] run.kind = "notfound" -> <<"pandoc not found">>
              [] run.kind = "exception" -> <<"pandoc exception">>)]

\* lua_filter_exists: whether os.path.exists finds the Lua filter when the
\* command line is built
convert_html_snippet_to_markdown(html_snippet, run, lua_filter_exists) ==
    run_pandoc(strip_p_wrappers(html_snippet,
                                FindAll(p_wrapper, S, html_snippet)),
               run, lua_filter_exists)

\* <table[^>]*>.*?<\/table>
table_pattern ==
    Cat(<<Str("<table"), Star(NotSet({">"})), Lit(">"), LazyStar(Dot),
          Str("</table>")>>)

\* the table blocks among the matches ms of table_pattern in text
blocks_of(text, ms) == [k \in 1..Len(ms) |-> Whole(text, ms[k])]

\* the table blocks of text, in document order
table_blocks(text) == blocks_of(text, FindAll(table_pattern, IS, text))

RECURSIVE Flatten(_)
Flatten(xs) == IF xs = <<>> THEN <<>> ELSE Head(xs) \o Flatten(Tail(xs))

\* replace_with_markdown_table for each block in turn; runs[k] is how the
\* converter ends when it is run for the k-th block
convert_blocks(blocks, runs, lua_filter_exists) ==
    <<>> \o [k \in 1..Len(blocks) |->
                convert_html_snippet_to_markdown(blocks[k], runs[k],
                                                 lua_filter_exists)]

\* sub_tables as it would be if the first failed conversion ended the
\* substitution: the later blocks are neither submitted nor replaced
sub_tables_until_failure(text, ms, runs, conv) ==
    LET failed == {k \in 1..Len(ms) : runs[k].kind # "ok"}
        n      == IF failed = {} THEN Len(ms) ELSE Smallest(failed)
    IN  [text  |-> Sub(text, ms, [k \in 1..Len(ms) |->
                       IF k <= n THEN conv[k].result
                       ELSE Whole(text, ms[k])]),
         calls |-> [k \in 1..n |->
                       [html_table |-> Whole(text, ms[k]),
                        stdin |-> conv[k].stdin,
                        kind |-> runs[k].kind,
                        markdown_table |-> conv[k].result]],
         log   |-> Flatten([k \in 1..n |-> conv[k].log])]

\* table_pattern.sub with the conversions conv of the blocks
sub_tables(text, ms, runs, conv) ==
    [text  |-> Sub(text, ms, [k \in 1..Len(ms) |-> conv[k].result]),
     calls |-> [k \in 1..Len(ms) |->
                   [html_table |-> Whole(text, ms[k]),
                    stdin |-> conv[k].stdin,
                    kind |-> runs[k].kind,
                    markdown_table |-> conv[k].result]],
     log   |-> Flatten([k \in 1..Len(ms) |-> conv[k].log])]

convert_tables_in(text, ms, runs, lua_filter_exists) ==
    sub_tables(text, ms, runs,
               convert_blocks(blocks_of(text, ms), runs, lua_filter_exists))

convert_tables_to_markdown(text, runs, lua_filter_exists) ==
    convert_tables_in(text, FindAll(table_pattern, IS, text), runs,
                      lua_filter_exists)

-----------------------------------------------------------------------------
(* The inputs.                                                             *)

\* the lines the files are made of
Lines ==
    { "",
      "abc",
      "## Foo {#t1}\r",
      "###### Fig [t](u)",
      "![a](./assets/f.png)",
      "^([1](#a))",
      "<sup>[1](#a)</sup>",
      "<img src=\"./assets/4.png\" alt=\"4\" />",
      "<img src=\"./assets/4.png\" alt=\"4\" /> ",
      "<img src=\"./assets/4.png\" alt=\"5\" /> ",
      "<img src=\"./media/4.png\" alt=\"4\" /> ",
      "<TABLE><td><p>x</p></td></table>",
      "{#a{#b}c}" }

\* the most lines a file has
MaxLines == 2

Documents ==
    UNION { { Join("\n", ls) : ls \in [1..k -> Lines] } : k \in 1..MaxLines }

\* what pandoc prints for a table when it succeeds
PandocOutputs == { " | a | {#t-1}\n" }

Runs ==
    { [kind |-> "ok", stdout |-> o] : o \in PandocOutputs }
    \cup { [kind |-> k, stdout |-> ""] :
               k \in {"nonzero", "notfound", "exception"} }

Path == "book.md"

Init ==
    /\ pc = "start"
    /\ argv \in { <<>>, <<Path>>, <<Path, "media">> }
    /\ file \in { [exists |-> FALSE, readable |-> FALSE, data |-> ""] }
           \cup { [exists |-> TRUE, readable |-> r, data |-> d] :
                      r \in BOOLEAN, d \in Documents }
    /\ current_media_folder = ""
    /\ content = ""
    /\ original_content = ""
    /\ step_input = ""
    /\ calls = <<>>
    /\ stderr = <<>>
    /\ opens_for_write = 0
    /\ exit_status = -1

-----------------------------------------------------------------------------
(* __main__, statement by statement.                                       *)

Exit(status) ==
    /\ pc' = "exited"
    /\ exit_status' = status

\* len(sys.argv) < 2: the usage message and sys.exit(1)
Usage ==
    /\ pc = "start"
    /\ Len(argv) < 1
    /\ stderr' = Append(stderr, "usage")
    /\ Exit(1)
    /\ UNCHANGED <<argv, file, current_media_folder, content,
                   original_content, step_input, calls, opens_for_write>>

ParseArguments ==
    /\ pc = "start"
    /\ Len(argv) >= 1
    /\ current_media_folder' = IF Len(argv) > 1 THEN argv[2] ELSE "assets"
    /\ pc' = "read"
    /\ UNCHANGED <<argv, file, content, original_content, step_input, calls,
                   stderr, opens_for_write, exit_status>>

ReadFileNotFound ==
    /\ pc = "read"
    /\ ~file.exists
    /\ stderr' = Append(stderr, "file not found")
    /\ Exit(1)
    /\ UNCHANGED <<argv, file, current_media_folder, content,
                   original_content, step_input, calls, opens_for_write>>

ReadFileError ==
    /\ pc = "read"
    /\ file.exists /\ ~file.readable
    /\ stderr' = Append(stderr, "error reading file")
    /\ Exit(1)
    /\ UNCHANGED <<argv, file, current_media_folder, content,
                   original_content, step_input, calls, opens_for_write>>

ReadFile ==
    /\ pc = "read"
    /\ file.exists /\ file.readable
    /\ content' = universal_newlines(file.data)
    /\ original_content' = content'
    /\ pc' = "convert_smart_quotes"
    /\ UNCHANGED <<argv, file, current_media_folder, step_input, calls,
                   stderr, opens_for_write, exit_status>>

\* content = f(content), then on to the statement `next`
Step(this, result, next) ==
    /\ pc = this
    /\ step_input' = content
    /\ content' = result
    /\ pc' = next
    /\ UNCHANGED <<argv, file, current_media_folder, original_content,
                   calls, stderr, opens_for_write, exit_status>>

ConvertSmartQuotes ==
    Step("convert_smart_quotes", convert_smart_quotes(content),
         "fix_footnote_definitions")

FixFootnoteDefinitions ==
    Step("fix_footnote_definitions", fix_footnote_definitions(content),
         "convert_h6_to_blockquote")

ConvertH6ToBlockquote ==
    Step("convert_h6_to_blockquote", convert_h6_to_blockquote(content),
         "adjust_headers")

AdjustHeaders ==
    Step("adjust_headers", adjust_headers(content), "remove_unwanted_spans")

RemoveUnwantedSpans ==
    Step("remove_unwanted_spans", remove_unwanted_spans(content),
         "convert_superscript_footnotes")

ConvertSuperscriptFootnotes ==
    Step("convert_superscript_footnotes",
         convert_superscript_footnotes(content), "process_html_figures")

ProcessHtmlFigures ==
    Step("process_html_figures", process_html_figures(content),
         "convert_internal_links_to_text")

ConvertInternalLinksToText ==
    Step("convert_internal_links_to_text",
         convert_internal_links_to_text(content),
         "normalize_blockquoted_headers")

NormalizeBlockquotedHeaders ==
    Step("normalize_blockquoted_headers",
         normalize_blockquoted_headers(content),
         "convert_specific_img_tags_to_numbered_text")

\* called with one argument: media_folder_name takes its default
ConvertSpecificImgTagsToNumberedText ==
    Step("convert_specific_img_tags_to_numbered_text",
         convert_specific_img_tags_to_numbered_text(content, "assets"),
         "convert_tables_to_markdown")

\* what convert_tables_to_markdown leaves behind: r.text is returned,
\* r.calls are the converter runs made, r.log the messages written
TablesConverted(r) ==
    /\ content' = r.text
    /\ calls' = calls \o r.calls
    /\ stderr' = stderr \o r.log

ConvertTablesToMarkdown ==
    /\ pc = "convert_tables_to_markdown"
    /\ \E runs \in [1..Len(table_blocks(content)) -> Runs], lua \in BOOLEAN :
          TablesConverted(convert_tables_to_markdown(content, runs, lua))
    /\ step_input' = content
    /\ pc' = "remove_reference_tags"
    /\ UNCHANGED <<argv, file, current_media_folder, original_content,
                   opens_for_write, exit_status>>

RemoveReferenceTags ==
    Step("remove_reference_tags", remove_reference_tags(content), "write")

\* content == original_content: nothing is written, the script ends
NoWrite ==
    /\ pc = "write"
    /\ content = original_content
    /\ Exit(0)
    /\ UNCHANGED <<argv, file, current_media_folder, content,
                   original_content, step_input, calls, stderr,
                   opens_for_write>>

\* WriteFile as it would be without `if content != original_content`
WriteFileAlways ==
    /\ pc = "write"
    /\ opens_for_write' = opens_for_write + 1
    /\ file' = [file EXCEPT !.data = content]
    /\ Exit(0)
    /\ UNCHANGED <<argv, current_media_folder, content, original_content,
                   step_input, calls, stderr>>

WriteFile ==
    /\ pc = "write"
    /\ content # original_content
    /\ opens_for_write' = opens_for_write + 1
    /\ file' = [file EXCEPT !.data = content]
    /\ Exit(0)
    /\ UNCHANGED <<argv, current_media_folder, content, original_content,
                   step_input, calls, stderr>>

\* open(..., "w") or f.write raises: the file keeps its bytes when open
\* raised and is left truncated when the write raised
WriteFileError ==
    /\ pc = "write"
    /\ content # original_content
    /\ opens_for_write' = opens_for_write + 1
    /\ \E data \in {file.data, ""} : file' = [file EXCEPT !.data = data]
    /\ stderr' = Append(stderr, "error writing file")
    /\ Exit(1)
    /\ UNCHANGED <<argv, current_media_folder, content, original_content,
                   step_input, calls>>

Next ==
    \/ Usage
    \/ ParseArguments
    \/ ReadFileNotFound
    \/ ReadFileError
    \/ ReadFile
    \/ ConvertSmartQuotes
    \/ FixFootnoteDefinitions
    \/ ConvertH6ToBlockquote
    \/ AdjustHeaders
    \/ RemoveUnwantedSpans
    \/ ConvertSuperscriptFootnotes
    \/ ProcessHtmlFigures
    \/ ConvertInternalLinksToText
    \/ NormalizeBlockquotedHeaders
    \/ ConvertSpecificImgTagsToNumberedText
    \/ ConvertTablesToMarkdown
    \/ RemoveReferenceTags
    \/ NoWrite
    \/ WriteFile
    \/ WriteFileError

Spec == Init /\ [][Next]_vars

-----------------------------------------------------------------------------
(* adjust_headers called on its own, on texts made of header lines.        *)

\* the lines these texts are made of
HeaderLines ==
    { "abc",
      "# Chapter Goals",
      " # Chapter Goals ",
      "#  Chapter Goals",
      "# Chapter 3",
      "# Chapter 1.2",
      "# Chapter 3 Intro",
      "# Chapter one",
      "# Title",
      "## Foo",
      "##### Foo",
      "###### Foo",
      "####### Foo",
      "##### Example 1-2. Title",
      "#####Example 3. x ",
      "##### Example 1",
      "#",
      "#Foo",
      "#\tTab",
      " ## Indented" }

\* the most lines such a text has
MaxHeaderLines == 2

HeaderDocuments ==
    UNION { { Join("\n", ls) : ls \in [1..k -> HeaderLines] } :
                k \in 1..MaxHeaderLines }

HeadersInit ==
    /\ pc = "adjust_headers"
    /\ content \in HeaderDocuments
    /\ argv = <<>>
    /\ file = [exists |-> FALSE, readable |-> FALSE, data |-> ""]
    /\ current_media_folder = ""
    /\ original_content = ""
    /\ step_input = ""
    /\ calls = <<>>
    /\ stderr = <<>>
    /\ opens_for_write = 0
    /\ exit_status = -1

\* content = adjust_headers(content), and the caller has the result
CallAdjustHeaders ==
    Step("adjust_headers", adjust_headers(content), "returned")

HeadersNext == CallAdjustHeaders

HeadersSpec == HeadersInit /\ [][HeadersNext]_vars

-----------------------------------------------------------------------------
(* Reading texts without the matcher: what the properties below are        *)
(* stated with.                                                            *)

\* t is found in s at position i
StartsAt(s, i, t) ==
    /\ i >= 1
    /\ i + Len(t) - 1 <= Len(s)
    /\ SubSeq(s, i, i + Len(t) - 1) = t

\* the same, whatever the case of the letters of s (t is in lower case)
StartsAtAnyCase(s, i, t) ==
    /\ i >= 1
    /\ i + Len(t) - 1 <= Len(s)
    /\ \A k \in 1..Len(t) : ToLower(Ch(s, i + k - 1)) = Ch(t, k)

Contains(s, t) == \E i \in 1..(Len(s) - Len(t) + 1) : StartsAt(s, i, t)

ContainsAny(s, ts) == \E t \in ts : Contains(s, t)

\* the first position from i on whose character is not in cs
SkipWhile(s, i, cs) ==
    CHOOSE j \in i..(Len(s) + 1) :
        /\ \A k \in i..(j - 1) : Ch(s, k) \in cs
        /\ j = Len(s) + 1 \/ Ch(s, j) \notin cs

\* the lines of s as "\n" separates them
NewlinesIn(s) == {i \in 1..Len(s) : Ch(s, i) = "\n"}

LineCount(s) == Cardinality(NewlinesIn(s)) + 1

\* the position of the k-th "\n" of s; 0 for k = 0, Len(s) + 1 past the last
NewlineAt(s, k) ==
    IF k = 0 THEN 0
    ELSE IF k > Cardinality(NewlinesIn(s)) THEN Len(s) + 1
    ELSE CHOOSE i \in NewlinesIn(s) :
             Cardinality({j \in NewlinesIn(s) : j < i}) = k - 1

LineAt(s, k) == SubSeq(s, NewlineAt(s, k - 1) + 1, NewlineAt(s, k) - 1)

\* a stage of the pipeline has just run: pc is the stage after it
After(stage) ==
    pc = CASE stage = "convert_smart_quotes" -> "fix_footnote_definitions"
           [] stage = "fix_footnote_definitions" -> "convert_h6_to_blockquote"
           [] stage = "convert_h6_to_blockquote" -> "adjust_headers"
           [] stage = "adjust_headers" -> "remove_unwanted_spans"
           [] stage = "remove_unwanted_spans" ->
                  "convert_superscript_footnotes"
           [] stage = "convert_superscript_footnotes" ->
                  "process_html_figures"
           [] stage = "process_html_figures" ->
                  "convert_internal_links_to_text"
           [] stage = "convert_internal_links_to_text" ->
                  "normalize_blockquoted_headers"
           [] stage = "normalize_blockquoted_headers" ->
                  "convert_specific_img_tags_to_numbered_text"
           [] stage = "convert_specific_img_tags_to_numbered_text" ->
                  "convert_tables_to_markdown"
           [] stage = "convert_tables_to_markdown" -> "remove_reference_tags"
           [] stage = "remove_reference_tags" -> "write"

Stages ==
    { "convert_smart_quotes", "fix_footnote_definitions",
      "convert_h6_to_blockquote", "adjust_headers", "remove_unwanted_spans",
      "convert_superscript_footnotes", "process_html_figures",
      "convert_internal_links_to_text", "normalize_blockquoted_headers",
      "convert_specific_img_tags_to_numbered_text",
      "convert_tables_to_markdown", "remove_reference_tags" }

-----------------------------------------------------------------------------
(* C1.  Failed table conversions.                                          *)

\* C1: for every table block whose converter run failed (pandoc missing, a
\* non-zero exit status, any other exception), the text put in its place is
\* the block itself, character for character, <p> wrappers included.
C1_FailedTableLeftVerbatim ==
    \A k \in 1..Len(calls) :
        calls[k].kind # "ok" => calls[k].markdown_table = calls[k].html_table

-----------------------------------------------------------------------------
(* C2.  The rules of adjust_headers, read from the claim.                  *)

\* the number of "#" the line starts with
HashCount(line) == SkipWhile(line, 1, {"#"}) - 1

\* where the text of a level-5 header starts
Level5Text(line) == SkipWhile(line, 6, Space)

\* after "Example": blanks, a number, and where the number ends
ExampleNumber(line)    == SkipWhile(line, Level5Text(line) + 7, Space)
ExampleNumberEnd(line) == SkipWhile(line, ExampleNumber(line), Digit)
ExampleRangeEnd(line)  == SkipWhile(line, ExampleNumberEnd(line) + 1, Digit)

\* rule 1: a level-5 header "Example <n>[-<n2>]. <text>"
IsExampleHeader(line) ==
    /\ HashCount(line) = 5
    /\ StartsAt(line, Level5Text(line), "Example")
    /\ ExampleNumber(line) > Level5Text(line) + 7
    /\ ExampleNumberEnd(line) > ExampleNumber(line)
    /\ \/ StartsAt(line, ExampleNumberEnd(line), ".")
       \/ /\ StartsAt(line, ExampleNumberEnd(line), "-")
          /\ ExampleRangeEnd(line) > ExampleNumberEnd(line) + 1
          /\ StartsAt(line, ExampleRangeEnd(line), ".")

\* rule 2: a level-1 header whose text is exactly "Chapter Goals"
IsChapterGoals(line) == Strip(line) = "# Chapter Goals"

\* after "# ": "Chapter", blanks, and the digits and dots
ChapterWord(t)      == SkipWhile(t, 2, Space)
ChapterNumber(t)    == SkipWhile(t, ChapterWord(t) + 7, Space)
ChapterNumberEnd(t) == SkipWhile(t, ChapterNumber(t), Digit \cup {"."})

\* rule 3: a level-1 header "Chapter <digits/dots>", and nothing after the
\* number
IsChapterNumber(line) ==
    /\ HashCount(Strip(line)) = 1
    /\ ChapterWord(Strip(line)) > 2
    /\ StartsAt(Strip(line), ChapterWord(Strip(line)), "Chapter")
    /\ ChapterNumber(Strip(line)) > ChapterWord(Strip(line)) + 7
    /\ ChapterNumberEnd(Strip(line)) > ChapterNumber(Strip(line))
    /\ ChapterNumberEnd(Strip(line)) = Len(Strip(line)) + 1

\* rule 4: a header of level 1 to 5
IsHeader1To5(line) ==
    /\ HashCount(line) \in 1..5
    /\ HashCount(line) < Len(line)
    /\ Ch(line, HashCount(line) + 1) \in Space

\* the line the claim's rules give for `line`, the first rule that applies
AdjustedLine(line) ==
    IF IsExampleHeader(line)
    THEN "*" \o Strip(SubSeq(line, Level5Text(line), Len(line))) \o "*"
    ELSE IF IsChapterGoals(line) THEN "### Chapter Goals"
    ELSE IF IsChapterNumber(line) THEN line
    ELSE IF IsHeader1To5(line) THEN "#" \o line
    ELSE line

\* C2: adjust_headers rewrites every line by the first rule that applies:
\* (1) a level-5 "Example <n>[-<n2>]. <text>" header becomes the emphasised
\* text, (2) "# Chapter Goals" becomes "### Chapter Goals", (3) a level-1
\* "Chapter <digits/dots>" header is unchanged, (4) any other header of level
\* 1 to 5 gains one "#", (5) every other line is unchanged; and no header
\* rule 4 produced is deeper than level 6.
C2_HeaderRules ==
    pc = "returned" =>
        /\ LineCount(content) = LineCount(step_input)
        /\ \A k \in 1..LineCount(step_input) :
              /\ LineAt(content, k) = AdjustedLine(LineAt(step_input, k))
              /\ IsHeader1To5(LineAt(step_input, k))
                     => HashCount(LineAt(content, k)) <= 6

-----------------------------------------------------------------------------
(* C3.  Texts a transform has nothing to do with.                          *)

\* what every text a stage rewrites contains: without any of these the
\* stage's patterns match nowhere
Marks(stage) ==
    CASE stage = "convert_smart_quotes" -> {LDQUO, RDQUO, LSQUO, RSQUO}
      [] stage = "fix_footnote_definitions" -> {"^(["}
      [] stage = "convert_h6_to_blockquote" -> {"######"}
      [] stage = "adjust_headers" -> {"#"}
      [] stage = "remove_unwanted_spans" -> {"<span", "<SPAN"}
      [] stage = "convert_superscript_footnotes" -> {"<sup>["}
      [] stage = "process_html_figures" -> {"<figure", "<FIGURE"}
      [] stage = "convert_internal_links_to_text" -> {"<a", "<A"}
      [] stage = "normalize_blockquoted_headers" -> {">"}
      [] stage = "convert_specific_img_tags_to_numbered_text" ->
             {"<img", "<IMG"}
      [] stage = "convert_tables_to_markdown" -> {"<table", "<TABLE"}
      [] stage = "remove_reference_tags" -> {"{#"}

\* C3: a transform given a text that holds none of the patterns it
\* recognises returns the text unchanged, character for character; so for
\* each stage of the pipeline, adjust_headers on a text that ends with a
\* line terminator included.
C3_IdentityWithoutPatterns ==
    \A stage \in Stages :
        After(stage) /\ ~ContainsAny(step_input, Marks(stage))
            => content = step_input

-----------------------------------------------------------------------------
(* C4.  Writing the file back.                                             *)

\* C4: the file is opened for writing at most once in a run, and only when
\* the final content differs from the content read; a missing or unreadable
\* file ends the run with status 1 and is never written; a failed write
\* ends the run with status 1.
C4_WrittenOnceOnlyIfChanged ==
    /\ opens_for_write <= 1
    /\ opens_for_write = 1 =>
          /\ pc = "exited"
          /\ content # original_content
          /\ file.exists /\ file.readable
    /\ opens_for_write = 0 /\ pc = "exited" /\ exit_status = 0 =>
          content = original_content
    /\ Len(argv) >= 1 /\ ~(file.exists /\ file.readable) =>
          /\ opens_for_write = 0
          /\ pc = "exited" => exit_status = 1
    /\ stderr # <<>> /\ stderr[Len(stderr)] = "error writing file" =>
          pc = "exited" /\ exit_status = 1

\* a changed text has been written back, once
C4_Written ==
    /\ pc = "exited"
    /\ exit_status = 0
    /\ opens_for_write = 1
    /\ file.data = content
    /\ content # original_content

-----------------------------------------------------------------------------
(* C5.  The media folder given on the command line.                        *)

\* the numbered image of folder f, as a line of the file
NumberedImage(f) == "<img src=\"./" \o f \o "/4.png\" alt=\"4\" /> \n"

\* C5: the folder name of the command line (or "assets") is the one the
\* numbered-image converter matches: an image under "./<folder>/" is
\* converted, an image under another folder is not.
C5_CommandLineFolderUsed ==
    After("convert_specific_img_tags_to_numbered_text") =>
        \A f \in {"assets", "media"} :
            Contains(step_input, NumberedImage(f)) =>
                (f = current_media_folder
                    <=> ~Contains(content, NumberedImage(f)))

-----------------------------------------------------------------------------
(* C6.  Numbered images.                                                   *)

\* an <img> tag of the media folder with these digits in src and alt
ImgTag(src, alt) ==
    "<img src=\"./assets/" \o src \o ".png\" alt=\"" \o alt \o "\" />"

\* C6: the tag is replaced by "<digits>. " exactly when its alt digits are
\* its src digits: a tag whose alt differs from its src is left as it is,
\* and the tag with src 4 and alt 4 followed by a newline becomes "4. ".
C6_ReplacedWhenAltIsSrc ==
    After("convert_specific_img_tags_to_numbered_text") =>
        /\ Contains(step_input, ImgTag("4", "5"))
               => Contains(content, ImgTag("4", "5"))
        /\ step_input = ImgTag("4", "4") \o "\n" => content = "4. "
        /\ step_input = ImgTag("4", "4") \o " \n" => content = "4. "

-----------------------------------------------------------------------------
(* C7.  Reference tags.                                                    *)

IdentifierChars == Upper \cup Lower \cup Digit \cup {"_"}

\* s holds "{#identifier}" somewhere
HasReferenceTag(s) ==
    \E i \in 1..Len(s) :
        /\ StartsAt(s, i, "{#")
        /\ SkipWhile(s, i + 2, IdentifierChars) > i + 2
        /\ StartsAt(s, SkipWhile(s, i + 2, IdentifierChars), "}")

\* C7: the output of remove_reference_tags holds no "{#identifier}", also
\* when removing one marker of the input brings the pieces of another
\* together.
C7_NoReferenceTagLeft ==
    After("remove_reference_tags") => ~HasReferenceTag(content)

-----------------------------------------------------------------------------
(* C8.  The figure/caption composer.                                       *)

\* a Markdown image of the media folder with its level-6 caption
CaptionedImage ==
    "![a](./" \o current_media_folder \o "/f.png)\n###### Fig [t](u)"

\* C8: the pipeline applies the figure/caption composer, so that an image
\* under the media folder followed by a level-6 caption has become a
\* <figure> block in the pipeline's output.
C8_CaptionedImageBecomesFigure ==
    pc = "write" /\ Contains(original_content, CaptionedImage)
        => Contains(content, "<figure>")

-----------------------------------------------------------------------------
(* C9.  One converter run per table.                                       *)

\* where the table block that opens at i ends, 0 when it does not
TableEnd(s, i) ==
    LET open  == {j \in (i + 6)..Len(s) : Ch(s, j) = ">"}
        close == {e \in (Smallest(open) + 1)..Len(s) :
                      StartsAtAnyCase(s, e, "</table>")}
    IN  IF open = {} \/ close = {} THEN 0 ELSE Smallest(close) + 7

\* the table blocks of s from position i on, read from left to right
RECURSIVE TablesFrom(_, _)
TablesFrom(s, i) ==
    LET opens == {j \in i..Len(s) : /\ StartsAtAnyCase(s, j, "<table")
                                    /\ TableEnd(s, j) # 0}
    IN  IF opens = {} THEN <<>>
        ELSE <<SubSeq(s, Smallest(opens), TableEnd(s, Smallest(opens)))>>
             \o TablesFrom(s, TableEnd(s, Smallest(opens)) + 1)

-----------------------------------------------------------------------------
(* C10.  Footnotes, line by line.                                          *)

\* C10: each footnote rewrite changes only the line its marker starts: the
\* text has as many lines after it as before, and every line that does not
\* start with the marker is unchanged.
C10_FootnotesLineByLine ==
    \A stage \in {"fix_footnote_definitions",
                  "convert_superscript_footnotes"} :
        After(stage) =>
            /\ LineCount(content) = LineCount(step_input)
            /\ \A k \in 1..LineCount(step_input) :
                  ~ContainsAny(LineAt(step_input, k), Marks(stage))
                      => LineAt(content, k) = LineAt(step_input, k)

====
